---------------------------- MODULE Spec2Model ----------------------------
(***************************************************************************)
(* Model of cmd_validate.cpp: a console loop that reads a line, validates  *)
(* its characters (validateString), lowercases it (processInput), matches  *)
(* it against the playback commands (validateCommand) and prints either    *)
(* the command name or an error report; "q"/"quit" exits the process.      *)
(*                                                                         *)
(* Characters are modelled by their 7-bit ASCII codes, strings by          *)
(* sequences of codes, so that isalpha/tolower are computed on codes the   *)
(* way the C library computes them in the "C" locale.  Text written to     *)
(* cout is a sequence of items: a string literal of the source, or the     *)
(* echoed contents of the variable `input`.                                *)
(***************************************************************************)
EXTENDS Integers, Sequences, FiniteSets

VARIABLES
    pc,          \* position of main(): see PcValues
    cin,         \* state of std::cin: "good", "eof" (eofbit), "fail" (eofbit|failbit)
    input,       \* main's `string input`
    processed,   \* validateCommand's local `string processed` (<<>> outside of it)
    out,         \* items written to cout since the last prompt (or since start)
    exitStatus   \* status passed to exit(), NoExit while the process runs

vars == <<pc, cin, input, processed, out, exitStatus>>

---------------------------------------------------------------------------
\* Bounds and character codes

\* longest string of the exhaustively enumerated short input lines
MaxLen == 3

Dash == 45
UpperA == 65
UpperZ == 90
LowerA == 97
LowerZ == 122
CaseOffset == 32
NoExit == -1

\* characters of the exhaustively enumerated short lines: p P a q - 1
Alphabet == {112, 80, 97, 113, Dash, 49}

\* characters that are neither letters nor '-': space ! 0 9 @ [ ` { _ and CR,
\* among them the codes adjacent to the two letter ranges
BadChars == {32, 33, 48, 57, 64, 91, 96, 123, 95, 13}

\* the command words and example lines as character codes
play == <<112, 108, 97, 121>>
pause == <<112, 97, 117, 115, 101>>
rewind == <<114, 101, 119, 105, 110, 100>>
fastForward == <<102, 97, 115, 116, 45, 102, 111, 114, 119, 97, 114, 100>>
stop == <<115, 116, 111, 112>>
quit == <<113, 117, 105, 116>>
xyz == <<120, 121, 122>>
digitsDash == <<49, 50, 45, 51>>

---------------------------------------------------------------------------
\* Library functions used by the program

\* isalpha(c) in the "C" locale
isalpha_alnum(c) == (c >= UpperA /\ c <= UpperZ) \/ (c >= LowerA /\ c <= LowerZ)
                        \/ (c >= 48 /\ c <= 57)
isalpha(c) == (c >= UpperA /\ c <= UpperZ) \/ (c >= LowerA /\ c <= LowerZ)

\* tolower(c) in the "C" locale
tolower(c) == IF c >= UpperA /\ c <= UpperZ THEN c + CaseOffset ELSE c

\* std::string::compare: negative, zero or positive (lexicographic order)
RECURSIVE compare(_, _)
compare(a, b) ==
    IF a = <<>> /\ b = <<>> THEN 0
    ELSE IF a = <<>> THEN -1
    ELSE IF b = <<>> THEN 1
    ELSE IF Head(a) < Head(b) THEN -1
    ELSE IF Head(a) > Head(b) THEN 1
    ELSE compare(Tail(a), Tail(b))

---------------------------------------------------------------------------
\* Output items

Lit(s) == [text |-> s, data |-> <<>>]
Echo(s) == [text |-> "", data |-> s]

WelcomeText == "Welcome to the Command Validator!\n\n"
PromptText == "P)lay, pA)use, R)ewind, F)ast-forward, S)top, or Q)uit?: "
InvalidStringException_what == "Invalid string exception: "
InvalidCommandException_what == "Unrecognized command exception: "

---------------------------------------------------------------------------
\* The program's functions

\* validateString: TRUE iff it throws InvalidStringException, scanning from
\* position i
RECURSIVE validateFrom(_, _)
validateFrom(str, i) ==
    IF i > Len(str) THEN FALSE
    ELSE IF isalpha(str[i]) \/ str[i] = Dash THEN validateFrom(str, i + 1)
    ELSE TRUE

validateString_firstOnly(str) ==
    Len(str) > 0 /\ ~(isalpha(str[1]) \/ str[1] = Dash)
validateString(str) == validateFrom(str, 1)

\* processInput: the lowercase copy of the passed string
processInput_identity(userInput) == userInput
processInput_addOffset(userInput) ==
    [i \in 1..Len(userInput) |-> userInput[i] + CaseOffset]
processInput(userInput) == [i \in 1..Len(userInput) |-> tolower(userInput[i])]

\* the if-chain of validateCommand, in source order
CommandTable_leadingLetters ==
    << [abbrev |-> <<112>>, word |-> play,        output |-> "play\n\n",         quits |-> FALSE],
       [abbrev |-> <<112>>, word |-> pause,       output |-> "pause\n\n",        quits |-> FALSE],
       [abbrev |-> <<114>>, word |-> rewind,      output |-> "rewind\n\n",       quits |-> FALSE],
       [abbrev |-> <<102>>, word |-> fastForward, output |-> "fast-Forward\n\n", quits |-> FALSE],
       [abbrev |-> <<115>>, word |-> stop,        output |-> "stop\n\n",         quits |-> FALSE],
       [abbrev |-> <<113>>, word |-> quit,        output |-> "",                 quits |-> TRUE] >>
CommandTable ==
    << [abbrev |-> <<112>>, word |-> play,        output |-> "play\n\n",         quits |-> FALSE],
       [abbrev |-> <<97>>,  word |-> pause,       output |-> "pause\n\n",        quits |-> FALSE],
       [abbrev |-> <<114>>, word |-> rewind,      output |-> "rewind\n\n",       quits |-> FALSE],
       [abbrev |-> <<102>>, word |-> fastForward, output |-> "fast-Forward\n\n", quits |-> FALSE],
       [abbrev |-> <<115>>, word |-> stop,        output |-> "stop\n\n",         quits |-> FALSE],
       [abbrev |-> <<113>>, word |-> quit,        output |-> "",                 quits |-> TRUE] >>

\* the condition of the i-th if: !processed.compare(abbrev) || !processed.compare(word)
Matches_wordOnly(i, p) == compare(p, CommandTable[i].word) = 0
Matches(i, p) ==
    compare(p, CommandTable[i].abbrev) = 0 \/ compare(p, CommandTable[i].word) = 0

\* index of the first if whose condition holds, 0 when none does
FirstMatch(p) ==
    IF \E i \in 1..Len(CommandTable) : Matches(i, p)
    THEN CHOOSE i \in 1..Len(CommandTable) :
            Matches(i, p) /\ \A j \in 1..(i - 1) : ~Matches(j, p)
    ELSE 0

\* quitFunction: what it writes to cout before it calls system("pause"),
\* what it writes once that call has returned, whether it then ends the
\* process, and the exit status
quitFunction_returns ==
    [before |-> Lit("any key quits\n\n"), after |-> Lit("quit\nGoodbye!\n"),
     exits |-> FALSE, status |-> 0]
quitFunction ==
    [before |-> Lit("any key quits\n\n"), after |-> Lit("quit\nGoodbye!\n"),
     exits |-> TRUE, status |-> 0]

---------------------------------------------------------------------------
\* Lines that standard input can deliver

RECURSIVE StringsUpTo(_)
StringsUpTo(n) ==
    IF n = 0 THEN {<<>>}
    ELSE LET shorter == StringsUpTo(n - 1)
         IN  shorter \cup {Append(s, c) : s \in {t \in shorter : Len(t) = n - 1},
                                          c \in Alphabet}

\* every upper/lower-case spelling of a lowercase word
CaseVariants(w) ==
    { [i \in 1..Len(w) |-> IF m[i] /\ w[i] >= LowerA /\ w[i] <= LowerZ
                           THEN w[i] - CaseOffset ELSE w[i]] :
        m \in [1..Len(w) -> BOOLEAN] }

\* a word with one character replaced by, or one character added of, BadChars
Corrupted(w) ==
    { [w EXCEPT ![i] = b] : i \in 1..Len(w), b \in BadChars }
        \cup { <<b>> \o w : b \in BadChars } \cup { Append(w, b) : b \in BadChars }

Words == {play, pause, rewind, fastForward, stop, quit}
Abbreviations == {<<112>>, <<97>>, <<114>>, <<102>>, <<115>>, <<113>>}

Lines ==
    StringsUpTo(MaxLen)
        \cup UNION {CaseVariants(w) : w \in Words \cup Abbreviations}
        \cup UNION {Corrupted(w) : w \in Words \cup Abbreviations}
        \cup {xyz, digitsDash, <<Dash, Dash, Dash, Dash>>}
        \cup {<<b>> : b \in BadChars}

---------------------------------------------------------------------------
\* The state machine of main()

PcValues == {"prompt", "getline", "validateString", "validateCommand",
             "dispatch", "systemPause", "catchString", "catchCommand",
             "terminated"}

Init ==
    /\ pc = "prompt"
    /\ cin = "good"
    /\ input = <<>>
    /\ processed = <<>>
    /\ out = <<Lit(WelcomeText)>>
    /\ exitStatus = NoExit

\* cout << "P)lay, ... Q)uit?: " at the top of while (true)
Prompt ==
    /\ pc = "prompt"
    /\ out' = <<Lit(PromptText)>>
    /\ pc' = "getline"
    /\ UNCHANGED <<cin, input, processed, exitStatus>>

\* getline(cin, input) on a good stream that delivers a line ended by '\n'
GetlineLine ==
    /\ pc = "getline"
    /\ cin = "good"
    /\ \E l \in Lines : input' = l
    /\ pc' = "validateString"
    /\ UNCHANGED <<cin, processed, out, exitStatus>>

\* getline(cin, input) on a good stream that reaches end of input: the
\* string is erased, then either the unterminated last line is stored and
\* eofbit is set, or nothing was extracted and eofbit|failbit are set
GetlineEof ==
    /\ pc = "getline"
    /\ cin = "good"
    /\ \E l \in Lines :
          /\ input' = l
          /\ cin' = IF l = <<>> THEN "fail" ELSE "eof"
    /\ pc' = "validateString"
    /\ UNCHANGED <<processed, out, exitStatus>>

\* getline(cin, input) on a stream that is not good: the sentry fails,
\* failbit is set and the string keeps its previous contents; the return
\* value is not tested and the loop goes on
GetlineFailed_break ==
    /\ pc = "getline"
    /\ cin # "good"
    /\ cin' = "fail"
    /\ pc' = "terminated"
    /\ exitStatus' = 0
    /\ UNCHANGED <<input, processed, out>>
GetlineFailed ==
    /\ pc = "getline"
    /\ cin # "good"
    /\ cin' = "fail"
    /\ pc' = "validateString"
    /\ UNCHANGED <<input, processed, out, exitStatus>>

\* validateString(input) inside the try block; input is passed by reference
\* and not written
ValidateString ==
    /\ pc = "validateString"
    /\ pc' = IF validateString(input) THEN "catchString" ELSE "validateCommand"
    /\ UNCHANGED <<cin, input, processed, out, exitStatus>>

\* validateCommand(input), first statement: processed = processInput(command);
\* command is passed by reference and not written
ValidateCommandEntry_inPlace ==
    /\ pc = "validateCommand"
    /\ processed' = processInput(input)
    /\ input' = processInput(input)
    /\ pc' = "dispatch"
    /\ UNCHANGED <<cin, out, exitStatus>>
ValidateCommandEntry ==
    /\ pc = "validateCommand"
    /\ processed' = processInput(input)
    /\ pc' = "dispatch"
    /\ UNCHANGED <<cin, input, out, exitStatus>>

\* validateCommand: one of the first five ifs matches, prints and returns
DispatchCommand ==
    /\ pc = "dispatch"
    /\ FirstMatch(processed) # 0
    /\ ~CommandTable[FirstMatch(processed)].quits
    /\ out' = Append(out, Lit(CommandTable[FirstMatch(processed)].output))
    /\ processed' = <<>>
    /\ pc' = "prompt"
    /\ UNCHANGED <<cin, input, exitStatus>>

\* validateCommand: the quit if matches and calls quitFunction(), which
\* writes its first line and calls system("pause"); the process then waits,
\* alive, for the external command to return
DispatchQuit ==
    /\ pc = "dispatch"
    /\ FirstMatch(processed) # 0
    /\ CommandTable[FirstMatch(processed)].quits
    /\ out' = Append(out, quitFunction.before)
    /\ pc' = "systemPause"
    /\ UNCHANGED <<cin, input, processed, exitStatus>>

\* system("pause") returns (it may never do so: the step need not happen);
\* quitFunction writes its second line and calls exit(0).  Were it to
\* return instead, control would reach the throw below the ifs of
\* validateCommand.
SystemPauseReturns ==
    /\ pc = "systemPause"
    /\ out' = Append(out, quitFunction.after)
    /\ processed' = <<>>
    /\ IF quitFunction.exits
       THEN pc' = "terminated" /\ exitStatus' = quitFunction.status
       ELSE pc' = "catchCommand" /\ UNCHANGED exitStatus
    /\ UNCHANGED <<cin, input>>

\* validateCommand: no if matches, throw InvalidCommandException()
DispatchNoMatch_silent ==
    /\ pc = "dispatch"
    /\ FirstMatch(processed) = 0
    /\ processed' = <<>>
    /\ pc' = "prompt"
    /\ UNCHANGED <<cin, input, out, exitStatus>>
DispatchNoMatch ==
    /\ pc = "dispatch"
    /\ FirstMatch(processed) = 0
    /\ processed' = <<>>
    /\ pc' = "catchCommand"
    /\ UNCHANGED <<cin, input, out, exitStatus>>

\* catch (InvalidStringException& e): cout << e.what() << input << "\n\n"
CatchInvalidString ==
    /\ pc = "catchString"
    /\ out' = out \o <<Lit(InvalidStringException_what), Echo(input), Lit("\n\n")>>
    /\ pc' = "prompt"
    /\ UNCHANGED <<cin, input, processed, exitStatus>>

\* catch (InvalidCommandException& e): cout << e.what() << input << "\n\n"
CatchInvalidCommand ==
    /\ pc = "catchCommand"
    /\ out' = out \o <<Lit(InvalidCommandException_what), Echo(input), Lit("\n\n")>>
    /\ pc' = "prompt"
    /\ UNCHANGED <<cin, input, processed, exitStatus>>

Next ==
    \/ Prompt
    \/ GetlineLine
    \/ GetlineEof
    \/ GetlineFailed
    \/ ValidateString
    \/ ValidateCommandEntry
    \/ DispatchCommand
    \/ DispatchQuit
    \/ SystemPauseReturns
    \/ DispatchNoMatch
    \/ CatchInvalidString
    \/ CatchInvalidCommand

Spec == Init /\ [][Next]_vars

---------------------------------------------------------------------------
\* Vocabulary of the properties, stated independently of the program's
\* functions

IsLetter(c) == c \in 65..90 \/ c \in 97..122
HasBadChar(s) == \E i \in 1..Len(s) : ~IsLetter(s[i]) /\ s[i] # 45
Lower(s) == [i \in 1..Len(s) |-> IF s[i] \in 65..90 THEN s[i] + 32 ELSE s[i]]

\* an iteration of the loop has run to its end: out holds all it printed
IterationDone ==
    /\ pc \in {"prompt", "terminated"}
    /\ Len(out) > 0
    /\ out[1] = Lit("P)lay, pA)use, R)ewind, F)ast-forward, S)top, or Q)uit?: ")

\* what the iteration printed after the prompt
Printed == Tail(out)

PlayingWords == {play, pause, rewind, fastForward, stop}
QuitTokens == {<<113>>, quit}
AcceptedTokens == Words \cup {<<112>>, <<97>>, <<114>>, <<102>>, <<115>>, <<113>>}

ExpectedOutput(w) ==
    CASE w = play -> "play\n\n"
      [] w = pause -> "pause\n\n"
      [] w = rewind -> "rewind\n\n"
      [] w = fastForward -> "fast-Forward\n\n"
      [] w = stop -> "stop\n\n"

Farewell == <<Lit("any key quits\n\n"), Lit("quit\nGoodbye!\n")>>

\* what entering the full word w prints after the prompt
ExpectedOutcome(w) == IF w = quit THEN Farewell ELSE <<Lit(ExpectedOutput(w))>>

InvalidStringReport(s) ==
    <<Lit("Invalid string exception: "), Echo(s), Lit("\n\n")>>
InvalidCommandReport(s) ==
    <<Lit("Unrecognized command exception: "), Echo(s), Lit("\n\n")>>

\* the single-letter synonym of a command word as the program accepts it
AcceptedLetter(w) == IF w = pause THEN <<97>> ELSE <<w[1]>>

MarkerTexts ==
    {"play\n\n", "pause\n\n", "rewind\n\n", "fast-Forward\n\n", "stop\n\n",
     "Invalid string exception: ", "Unrecognized command exception: ",
     "quit\nGoodbye!\n"}

FastForwardMixed == <<70, 97, 115, 116, 45, 70, 111, 114, 119, 97, 114, 100>>

---------------------------------------------------------------------------
\* C1: a line of letters and dashes whose lowercase form is one of the full
\* words play, pause, rewind, fast-forward, stop (any mix of case) prints
\* exactly the matching output string and no error report.
C1_FullWordOutput ==
    (IterationDone /\ Lower(input) \in PlayingWords)
        => /\ pc = "prompt"
           /\ Printed = <<Lit(ExpectedOutput(Lower(input)))>>

C1_Witness ==
    /\ IterationDone
    /\ input = FastForwardMixed
    /\ Printed = <<Lit("fast-Forward\n\n")>>

\* C2 (as stated): for each of the six commands the one-character line made
\* of the first letter of the word, in either case, has the same outcome as
\* the full word.
C2_LeadingLetterAsStated ==
    \A w \in Words :
        (IterationDone /\ Lower(input) = <<w[1]>>)
            => /\ Printed = ExpectedOutcome(w)
               /\ (pc = "terminated") <=> (w = quit)

\* C2 (amended): the single letter accepted for play, rewind, fast-forward,
\* stop and quit is the leading letter, for pause it is 'a'; in either case
\* that one-character line has the same outcome as the full word (so 'p'
\* is play, never pause).
C2_AcceptedLetter ==
    \A w \in Words :
        (IterationDone /\ Lower(input) = AcceptedLetter(w))
            => /\ Printed = ExpectedOutcome(w)
               /\ (pc = "terminated") <=> (w = quit)

C2_Witness ==
    /\ IterationDone
    /\ input = <<65>>
    /\ Printed = <<Lit("pause\n\n")>>

\* C3: a line with at least one character that is neither a letter nor '-'
\* gets an InvalidCharacter report; validateCommand is not run on it and no
\* command name is printed, even when the rest of the line spells a command.
C3_InvalidCharacter ==
    /\ pc \in {"validateCommand", "dispatch", "systemPause", "catchCommand"}
          => ~HasBadChar(input)
    /\ (IterationDone /\ HasBadChar(input))
          => pc = "prompt" /\ Printed = InvalidStringReport(input)

C3_Witness ==
    /\ IterationDone
    /\ input = Append(play, 32)
    /\ Printed = InvalidStringReport(Append(play, 32))

\* C4: a line of letters and dashes only (the empty line and lines of dashes
\* included) whose lowercase form is no accepted token gets an
\* UnrecognizedCommand report and no command name.
C4_Unrecognized ==
    (IterationDone /\ ~HasBadChar(input) /\ Lower(input) \notin AcceptedTokens)
        => pc = "prompt" /\ Printed = InvalidCommandReport(input)

C4_Witness ==
    /\ IterationDone
    /\ input = xyz
    /\ Printed = InvalidCommandReport(xyz)

\* C5: when the lowercase form of a validated line is "q" or "quit", the
\* program writes the first farewell line and waits in system("pause"); the
\* only step from there writes the second line and terminates with exit
\* status 0, so no UnrecognizedCommand report is printed; once terminated
\* nothing changes any more.
C5_QuitTerminates ==
    [][ /\ (pc = "dispatch" /\ processed \in QuitTokens)
            => /\ pc' = "systemPause"
               /\ out' = Append(out, Farewell[1])
               /\ Len(out) = 1
               /\ exitStatus' = exitStatus
        /\ pc = "systemPause"
            => /\ pc' = "terminated"
               /\ exitStatus' = 0
               /\ out' = Append(out, Farewell[2])
               /\ Tail(out') = Farewell
        /\ pc' = "systemPause"
            => pc = "dispatch" /\ processed \in QuitTokens
        /\ pc = "terminated"
            => /\ pc' = "terminated"
               /\ out' = out /\ input' = input /\ cin' = cin
               /\ exitStatus' = exitStatus ]_vars

C5_Witness ==
    /\ pc = "terminated"
    /\ exitStatus = 0
    /\ input = <<81, 117, 73, 116>>
    /\ Printed = Farewell

\* C6: the process terminates only through a quit command; every iteration
\* whose line is not a quit command (a command, an InvalidCharacter line, an
\* UnrecognizedCommand line, a failed read) returns to the prompt.
C6_OnlyQuitTerminates ==
    [][ /\ (pc' = "terminated" /\ pc # "terminated")
            => /\ pc = "systemPause"
               /\ processed \in QuitTokens /\ Lower(input) \in QuitTokens
        /\ pc' = "systemPause" => Lower(input) \in QuitTokens
        /\ pc = "getline" => pc' = "validateString"
        /\ (pc \in {"dispatch", "catchString", "catchCommand"}
                /\ Lower(input) \notin QuitTokens)
            => pc' = "prompt" \/ (pc = "dispatch" /\ pc' = "catchCommand") ]_vars

C6_Witness ==
    /\ IterationDone
    /\ pc = "prompt"
    /\ cin = "fail"
    /\ input = stop
    /\ Printed = <<Lit("stop\n\n")>>

\* C7: every error report carries the tag of the failure that occurred and
\* echoes the line exactly as read: nothing but getline changes `input`.
C7_ReportEchoesInput ==
    [][ /\ pc # "getline" => input' = input
        /\ pc = "catchString"
            => HasBadChar(input) /\ out' = out \o InvalidStringReport(input)
        /\ pc = "catchCommand"
            => /\ ~HasBadChar(input)
               /\ Lower(input) \notin AcceptedTokens
               /\ out' = out \o InvalidCommandReport(input) ]_vars

C7_Witness ==
    /\ IterationDone
    /\ input = <<80, 80>>
    /\ Printed = InvalidCommandReport(<<80, 80>>)

\* C8: on strings of letters and dashes processInput is idempotent, keeps
\* the length and leaves the dashes in place.
C8_Idempotent ==
    pc = "dispatch"
        => /\ processInput(processed) = processed
           /\ Len(processed) = Len(input)
           /\ \A i \in 1..Len(input) : (input[i] = 45) <=> (processed[i] = 45)

C8_Witness ==
    /\ pc = "dispatch"
    /\ input = FastForwardMixed
    /\ processed = fastForward

\* C9: while the dispatcher runs, the normalized command is the
\* character-by-character lowercase of the current line and holds only
\* lowercase letters and dashes.
C9_Normalized ==
    pc = "dispatch"
        => /\ processed = Lower(input)
           /\ \A i \in 1..Len(processed) :
                processed[i] \in 97..122 \/ processed[i] = 45

C9_Witness ==
    /\ pc = "dispatch"
    /\ input = <<80, 45, 113>>
    /\ processed = <<112, 45, 113>>

\* C10: every iteration ends in exactly one outcome (one command name, one
\* InvalidCharacter report, one UnrecognizedCommand report, or termination
\* by quit), and a normalized line matches at most one command.
C10_OneOutcome ==
    /\ IterationDone
          => /\ Cardinality({i \in DOMAIN out : out[i].text \in MarkerTexts}) = 1
             /\ \/ pc = "prompt" /\ \E w \in PlayingWords : Printed = ExpectedOutcome(w)
                \/ pc = "prompt" /\ Printed = InvalidStringReport(input)
                \/ pc = "prompt" /\ Printed = InvalidCommandReport(input)
                \/ pc = "terminated" /\ Printed = Farewell
    /\ pc = "dispatch"
          => Cardinality({i \in 1..Len(CommandTable) : Matches(i, processed)}) <= 1

C10_Witness ==
    /\ IterationDone
    /\ input = <<112>>
    /\ Cardinality({i \in DOMAIN out : out[i].text \in MarkerTexts}) = 1
    /\ Printed = <<Lit("play\n\n")>>

===========================================================================
